---- MODULE Spec2Model ----
(***************************************************************************)
(* Model of the lcm package (ASUSTOR LCD serial protocol): the message     *)
(* helpers of message.go, the inbound assembler recvMessage, and the       *)
(* protocol engine of lcm.go (Send, Recv, Close, the reader goroutine and  *)
(* the handler goroutine).                                                 *)
(*                                                                         *)
(* Bytes are naturals in 0..255; a Message / frame is a sequence of bytes  *)
(* (1-indexed here, 0-indexed in the Go source).                           *)
(***************************************************************************)
EXTENDS Integers, Sequences, FiniteSets, TLC

\* ------------------------------------------------------------------------
\* Bounds of the model (not program constants).
\* ------------------------------------------------------------------------
\* Number of Send calls the application makes in one behaviour.
NumSenders == 2
\* Number of chunks the MCU puts on the serial line in one behaviour.
MaxFrames == 2
\* Number of Recv calls the application makes in one behaviour.
MaxRecvs == 2
\* Number of reply timeouts that expire for one send where the behaviour
\* bounds them (the MCU answers before later ones expire).
MaxTimeouts == 1
\* Number of Close calls the application makes where it calls Close again.
MaxCloses == 2
\* Longest text given to SetDisplay.
MaxTextLen == 17
\* Longest text given to Scroll.
MaxScrollLen == 24
\* Number of next() calls made on a Scroll producer that is kept in use.
MaxScrollCalls == 12
\* Number of next() and of goBack() calls made on a ShowAllCharCodes producer.
MaxCharCalls == 17
MaxGoBacks == 1
\* Largest LEN byte of a message tried on the round trip.
MaxPayload == 18
MaxBody == 18

\* ------------------------------------------------------------------------
\* Program constants.
\* ------------------------------------------------------------------------
Command == 240
Reply == 241
fflush == 0
Fon == 17
Fversion == 19
Fbutton == 128
Ftext == 39
DisplayTop == 0
DisplayBottom == 1
DefaultRetryLimit == 50
WriteCCap == 2
RawReadCCap == 2
ReadCCap == 5

\* ------------------------------------------------------------------------
\* message.go
\* ------------------------------------------------------------------------
RECURSIVE SumBytes(_)
SumBytes(b) == IF b = <<>> THEN 0 ELSE Head(b) + SumBytes(Tail(b))

\* Mutant: the sum is not reduced to 8 bits.
checksumNoWrap(b) == SumBytes(b)

\* checksum: the 8-bit wrapping sum of the bytes.
checksum(b) == SumBytes(b) % 256

\* Message.Type
Type(m) == IF Len(m) = 0 THEN 0 ELSE m[1]

\* Message.Function (m[2] in Go)
Function(m) == IF Len(m) = 0 THEN 0 ELSE m[3]

\* Message.Ok (m[3] in Go, whatever that byte is)
Ok(m) == IF Len(m) = 0 THEN FALSE ELSE m[4] = 0

\* Message.ReplyOk
ReplyOk(m) == IF Type(m) = Command THEN <<Reply, 1, Function(m), 0>> ELSE <<>>

\* Mutant: the LEN byte is not compared with the length.
CheckNoLength(m) ==
    IF Len(m) < 4 THEN "message too short"
    ELSE IF Type(m) # Command /\ Type(m) # Reply THEN "unknown message type"
    ELSE "nil"

\* Message.Check: "nil" or the error text.
Check(m) ==
    IF Len(m) < 4 THEN "message too short"
    ELSE IF Type(m) # Command /\ Type(m) # Reply THEN "unknown message type"
    ELSE IF m[2] + 3 # Len(m) THEN "wrong message length"
    ELSE "nil"

flushMCUBuffer == <<Command, 1, fflush, 0>>
DisplayOn == <<Command, 1, Fon, 1>>

\* strings.Repeat(" ", n)
Spaces(n) == [k \in 1..n |-> 32]

\* Mutant: the text is not padded.
PadRightNone(text) == text

\* SetDisplay: if len(text) < 16 { text += strings.Repeat(" ", 16-len(text)) }
PadRight(text) == IF Len(text) < 16 THEN text \o Spaces(16 - Len(text)) ELSE text

\* SetDisplay: raw (nil is <<>>) and err ("nil" or the error text).  line and
\* indent are ints; byte(x) keeps the low 8 bits.
SetDisplay(line, indent, text) ==
    IF line # DisplayTop /\ line # DisplayBottom
    THEN [raw |-> <<>>, err |-> "display line out of bounds"]
    ELSE IF indent > 15
    THEN [raw |-> <<>>, err |-> "indentation out of bounds, [0, 15]"]
    ELSE IF Len(text) > 16
    THEN [raw |-> <<>>, err |-> "text too long"]
    ELSE [raw |-> <<Command, 18, Ftext, line % 256, indent % 256>> \o PadRight(text),
          err |-> "nil"]

\* Mutant: the position wraps one step early.
ScrollWrapsEarly(i, n) == i >= n - 16

\* Scroll: i > len(text)-16
ScrollWraps(i, n) == i > n - 16

\* Scroll: one call of next() on the closure state sc (line, text, i, done):
\* the new closure state and what the call returns.
ScrollNext(sc) ==
    LET n == Len(sc.text)
        done == sc.done \/ sc.i >= n - 16
        i == IF ScrollWraps(sc.i, n) THEN 0 ELSE sc.i
        rest == SubSeq(sc.text, i + 1, n)
        trunc == IF Len(rest) > 16 THEN SubSeq(rest, 1, 16) ELSE rest
    IN  [sc |-> [sc EXCEPT !.i = i + 1, !.done = done],
         ret |-> [raw |-> SetDisplay(sc.line, 0, trunc).raw, start |-> i = 0, done |-> done]]

\* fmt.Sprintf("%03d", v) for a uint8 v
Digits3(v) == <<48 + (v \div 100), 48 + ((v \div 10) % 10), 48 + (v % 10)>>

\* Mutant: the codes of a window start at i.
CharCodesFromI(i) == [j \in 1..16 |-> (i + (j - 1)) % 256]

\* ShowAllCharCodes: chars[j] = 1 + i + uint8(j), in uint8 arithmetic
CharCodes(i) == [j \in 1..16 |-> (1 + i + (j - 1)) % 256]

\* ShowAllCharCodes: one call of next() on the closure state c (i, done):
\* the new closure state and what the call returns.  i is a uint8.
CharsNext(c) ==
    LET i == (c.i + 16) % 256
        done == c.done \/ i = 0
        label == Digits3(c.i) \o [k \in 1..10 |-> 46] \o Digits3((c.i + 15) % 256)
    IN  [c |-> [c EXCEPT !.i = i, !.done = done],
         ret |-> [line1 |-> SetDisplay(DisplayTop, 0, CharCodes(c.i)).raw,
                  line2 |-> SetDisplay(DisplayBottom, 0, label).raw,
                  start |-> c.i = 0,
                  done |-> done]]

\* ShowAllCharCodes: goBack, i -= 16 * 2 (backs counts the calls)
GoBack(c) == [c EXCEPT !.i = (c.i - 32) % 256, !.backs = c.backs + 1]

\* ------------------------------------------------------------------------
\* recvMessage: the inbound assembler.
\* ------------------------------------------------------------------------
\* recvMessage.Reset
ResetRaw == [buf |-> <<>>, len |-> 0, sum |-> 0]

\* Mutant: the last byte is not compared with the running sum.
SumMatchesAlways(sum, c) == TRUE

\* recvMessage.WriteByte, end of message: m.sum == c
SumMatches(sum, c) == sum = c

\* Mutant: no safeguard against very long messages.
LenErrorNever(kind, c) == "nil"

\* Mutant: a Reply may be as long as a Command.
LenErrorAnyKind(kind, c) ==
    IF c > 16 THEN "command message too long" ELSE "nil"

\* recvMessage.WriteByte, case n == 1: the safeguard against very long
\* messages, for the first byte kind and the LEN byte c.
LenError(kind, c) ==
    IF kind = Reply /\ c > 1 THEN "reply message too long"
    ELSE IF c > 16 THEN "command message too long"
    ELSE "nil"

\* recvMessage.WriteByte: the new assembler state and the returned error
\* ("nil", "EOF" or the parsing error).  n, len and sum are uint8.
WriteByte(m, c) ==
    LET n == Len(m.buf) % 256
        b == Append(m.buf, c)
    IN  IF n = 0 THEN
            IF c # Command /\ c # Reply
            THEN [raw |-> [m EXCEPT !.buf = b], err |-> "invalid frame"]
            ELSE [raw |-> [m EXCEPT !.buf = b, !.sum = (m.sum + c) % 256], err |-> "nil"]
        ELSE IF n = 1 THEN
            IF LenError(b[1], c) # "nil"
            THEN [raw |-> [m EXCEPT !.buf = b], err |-> LenError(b[1], c)]
            ELSE [raw |-> [m EXCEPT !.buf = b, !.len = (3 + c) % 256,
                                    !.sum = (m.sum + c) % 256], err |-> "nil"]
        ELSE IF n > 1 /\ n = m.len THEN
            IF SumMatches(m.sum, c)
            THEN [raw |-> [m EXCEPT !.buf = b], err |-> "EOF"]
            ELSE [raw |-> [m EXCEPT !.buf = b], err |-> "invalid checksum"]
        ELSE IF n > 1 /\ n > m.len
            THEN [raw |-> [m EXCEPT !.buf = b], err |-> "invalid size"]
        ELSE [raw |-> [m EXCEPT !.buf = b, !.sum = (m.sum + c) % 256], err |-> "nil"]

\* copyBytes(raw, r) over the bytes available on the line: feeds bytes until
\* WriteByte returns an error or EOF; err = "more" when the line runs dry
\* first (ReadByte blocks).  rest is what stays unread.
RECURSIVE copyBytes(_, _)
copyBytes(m, src) ==
    IF src = <<>> THEN [raw |-> m, rest |-> <<>>, err |-> "more"]
    ELSE CHOOSE res \in {IF r.err = "nil" THEN copyBytes(r.raw, Tail(src))
                          ELSE [raw |-> r.raw, rest |-> Tail(src), err |-> r.err] :
                          r \in {WriteByte(m, Head(src))}} : TRUE

\* ------------------------------------------------------------------------
\* The environment: what the application sends and what the MCU puts on
\* the serial line.
\* ------------------------------------------------------------------------
Senders == 1..NumSenders

\* An undocumented one-byte command with function 0x0F.
Command0x0F == <<Command, 1, 15, 0>>
\* A message without payload: fails Check.
ShortMessage == <<Command, 1, Fon>>

\* A message whose first byte is neither Command nor Reply: fails Check.
UnknownTypeMessage == <<66, 1, Fon, 1>>
\* A message whose LEN byte is not its payload length: fails Check.
WrongLengthMessage == <<Command, 2, Fon, 1>>

SendMsgs ==
    {DisplayOn, Command0x0F, ShortMessage, UnknownTypeMessage, WrongLengthMessage}

ReplyOnOk == <<Reply, 1, Fon, 0, 3>>
ReplyOnErr == <<Reply, 1, Fon, 2, 5>>
ReplyEmpty0x0F == <<Reply, 0, 15, 0>>
CmdOn == <<Command, 1, Fon, 1, 3>>
\* The MCU reports its version; the MCU answers the flush burst.
CmdVersion == <<Command, 1, Fversion, 0, 4>>
ReplyFlushOk == <<Reply, 1, fflush, 0, 242>>
ButtonUp == <<Command, 1, Fbutton, 1, 114>>
ButtonUpBadSum == <<Command, 1, Fbutton, 1, 115>>

\* An OK reply to function 0x11 with a wrong checksum byte.
ReplyOnBadSum == <<Reply, 1, Fon, 0, 4>>
\* Bytes that end in a parse error, each followed by a valid button frame.
BadReplyThenButton == ReplyOnBadSum \o ButtonUp
BadSumThenButton == ButtonUpBadSum \o ButtonUp
BadKindThenButton == <<66>> \o ButtonUp
TooLongThenButton == <<Command, 17>> \o ButtonUp

\* The chunks of bytes the MCU may put on the line.
InChunks ==
    {ReplyOnOk, ReplyOnErr, ReplyEmpty0x0F, ButtonUp, ButtonUpBadSum, CmdOn,
     CmdVersion, ReplyFlushOk, BadReplyThenButton, BadSumThenButton,
     BadKindThenButton, TooLongThenButton}

\* A value of type error: nil, or what the error text is built from.
ErrNone == [kind |-> "none", tries |-> 0, limit |-> 0, wErr |-> FALSE]
ErrNil == [kind |-> "nil", tries |-> 0, limit |-> 0, wErr |-> FALSE]
ErrCheck(text) == [kind |-> text, tries |-> 0, limit |-> 0, wErr |-> FALSE]
ErrRetry(t, l, w) == [kind |-> "retry limit exceeded", tries |-> t, limit |-> l, wErr |-> w]

NoMessage == [tag |-> 0, b |-> <<>>]

VARIABLES
    env,          \* what the application and the MCU do in this behaviour
    calls,        \* Send calls made so far
    nrecv,        \* Recv calls made so far
    ack,          \* m.opts.ack
    ctxDone,      \* m.ctx is cancelled
    doneClosed,   \* m.done is closed
    sClosed,      \* number of m.s.Close() calls made
    writeC,       \* m.writeC: queued sendMessages (named by their sender)
    rawReadC,     \* m.rawReadC
    readC,        \* m.readC
    spc,          \* Send: position of each caller
    smsg,         \* Send: msg
    sdata,        \* sendMessage.data
    errC,         \* sendMessage.err (capacity 1): ErrNone = empty, ErrNil = closed
    sres,         \* Send: returned error
    wire,         \* bytes on the serial line not yet read
    nframes,      \* chunks the MCU has put on the line
    rpc,          \* read: position of the reader goroutine
    raw,          \* read: the recvMessage
    rframe,       \* read: b
    hpc,          \* handle: position of the handler goroutine
    id,           \* handle: id
    w,            \* handle: the dequeued sendMessage (0: none)
    handleReply,  \* handle: handleReply # nil
    retry,        \* handle: retry # nil
    replyTimeout, \* handle: "nil", "armed" (time.After pending) or "fired"
    tries,        \* handle: tries
    wErr,         \* handle: wErr # nil
    read,         \* handle: read
    out,          \* the Write calls made on m.s by the latest handler step
    rcvpc,        \* Recv: position of the consumer
    clpc,         \* Close: position of the caller
    \* history
    framed,       \* the frames the reader completed, in order
    submitted,    \* senders in the order they were put on writeC
    written,      \* sends whose frame was handed to m.write at least once
    framedAt,     \* per send, how many frames were framed at its first write
    atClose,      \* sends waiting on sm.err when Close was called
    okBy,         \* per send, the frame for which handleReply closed w.err
    failBy,       \* per send, the latest matching reply that was not OK
    consumed,     \* tags of frames for which handleReply returned true
    forwarded,    \* frames put on readC, in order
    dropped,      \* tags discarded from readC by the handler
    recvd,        \* messages returned by Recv, in order
    lateSend,     \* senders whose Send call began after Close returned
    lateRecv,     \* the current Recv call began after Close returned
    \* the message builders (no part of the engine)
    sdArgs,       \* SetDisplay: line, indent, text
    sdRet,        \* SetDisplay: raw, err (err = "none" before the call)
    scroll,       \* Scroll: line, text and the closure's i, done
    scrollRet,    \* what the calls of Scroll's next() returned, in order
    chars,        \* ShowAllCharCodes: the closures' i, done (and goBack calls made)
    charsRet,     \* what the calls of ShowAllCharCodes' next() returned, in order
    rtMsg,        \* round trip: the message given to Send
    rtRet         \* round trip: what the assembler made of the outbound frame

\* The histories of frames are kept only in behaviours that tag the frames.
Hist(old, new) == IF env.tagged THEN new ELSE old

engineVars == <<env, calls, nrecv, ack, ctxDone, doneClosed, sClosed, writeC, rawReadC, readC, spc, smsg,
                sdata, errC, sres, wire, nframes, rpc, raw, rframe, hpc, id, w,
                handleReply, retry, replyTimeout, tries, wErr, read, out, rcvpc, clpc,
                framed, submitted, written, framedAt, atClose, okBy, failBy, consumed, forwarded, dropped, recvd,
                lateSend, lateRecv>>
builderVars == <<sdArgs, sdRet, scroll, scrollRet, chars, charsRet, rtMsg, rtRet>>
vars == <<engineVars, builderVars>>

chanVars == <<writeC, rawReadC, readC>>
senderVars == <<calls, spc, smsg, sdata, errC, sres>>
readerVars == <<wire, nframes, rpc, raw, rframe, framed>>
handlerVars == <<hpc, id, w, handleReply, retry, replyTimeout, tries, wErr, read, out>>
closeVars == <<ctxDone, doneClosed, sClosed, clpc>>
histVars == <<submitted, written, framedAt, atClose, okBy, failBy, consumed, forwarded, dropped, recvd,
          lateSend, lateRecv>>

\* The application's queue of unread messages after k button presses that
\* no Recv call has taken.
RECURSIVE Presses(_, _)
Presses(k, tagged) ==
    IF k = 0 THEN <<>>
    ELSE Append(Presses(k - 1, tagged),
                [tag |-> IF tagged THEN k ELSE 0,
                 b |-> SubSeq(ButtonUp, 1, Len(ButtonUp) - 1)])

RECURSIVE PressFrames(_)
PressFrames(k) == IF k = 0 THEN <<>> ELSE Append(PressFrames(k - 1), ButtonUp)

\* Open, with or without EnableProtocolAckReply: the state after
\* construction, both goroutines started (k = 0), or that state after the
\* MCU has reported k button presses and the engine has queued them.
Open(e, acks, ks) ==
    /\ env = e
    /\ calls = 0
    /\ nrecv = 0
    /\ ack \in acks
    /\ ctxDone = FALSE
    /\ doneClosed = FALSE
    /\ sClosed = 0
    /\ writeC = <<>>
    /\ rawReadC = <<>>
    /\ \E k \in ks :
          /\ readC = Presses(k, e.tagged)
          /\ framed = IF e.tagged THEN PressFrames(k) ELSE <<>>
          /\ forwarded = IF e.tagged THEN Presses(k, TRUE) ELSE <<>>
    /\ spc = [s \in Senders |-> "idle"]
    /\ smsg = [s \in Senders |-> <<>>]
    /\ sdata = [s \in Senders |-> <<>>]
    /\ errC = [s \in Senders |-> ErrNone]
    /\ sres = [s \in Senders |-> ErrNone]
    /\ wire = <<>>
    /\ nframes = 0
    /\ rpc = "read"
    /\ raw = ResetRaw
    /\ rframe = NoMessage
    /\ hpc = "top"
    /\ id = 0
    /\ w = 0
    /\ handleReply = FALSE
    /\ retry = FALSE
    /\ replyTimeout = "nil"
    /\ tries = 0
    /\ wErr = FALSE
    /\ read = NoMessage
    /\ out = <<>>
    /\ rcvpc = "idle"
    /\ clpc = "idle"
    /\ submitted = <<>>
    /\ written = {}
    /\ framedAt = [s \in Senders |-> 0]
    /\ atClose = {}
    /\ okBy = [s \in Senders |-> <<>>]
    /\ failBy = [s \in Senders |-> <<>>]
    /\ consumed = {}
    /\ dropped = {}
    /\ recvd = <<>>
    /\ lateSend = {}
    /\ lateRecv = FALSE

\* No message builder has been called.
BuildersIdle ==
    /\ sdArgs = [line |-> 0, indent |-> 0, text |-> <<>>]
    /\ sdRet = [raw |-> <<>>, err |-> "none"]
    /\ scroll = [line |-> 0, text |-> <<>>, i |-> 0, done |-> FALSE]
    /\ scrollRet = <<>>
    /\ chars = [i |-> 0, done |-> FALSE, backs |-> 0]
    /\ charsRet = <<>>
    /\ rtMsg = <<>>
    /\ rtRet = [raw |-> ResetRaw, rest |-> <<>>, err |-> "none"]

InitWith(e, acks, ks) == Open(e, acks, ks) /\ BuildersIdle

\* ------------------------------------------------------------------------
\* Channels: a buffered channel is the sequence of its queued values.
\* ------------------------------------------------------------------------
\* Mutant: a channel that hands out the latest value first.
ChanSendFront(c, v) == <<v>> \o c

\* c <- v
ChanSend(c, v) == Append(c, v)
\* what <-c leaves in the channel
ChanRecv(c) == Tail(c)

\* ------------------------------------------------------------------------
\* Send
\* ------------------------------------------------------------------------
\* Send, up to the channel send: Check, then data = msg + checksum.
SendCall(s, msg) ==
    /\ spc[s] = "idle"
    /\ s = calls + 1
    /\ calls < env.sends
    /\ msg \in env.msgs
    /\ calls' = calls + 1
    /\ smsg' = [smsg EXCEPT ![s] = msg]
    /\ lateSend' = IF clpc = "returned" THEN lateSend \cup {s} ELSE lateSend
    /\ IF Check(msg) # "nil"
       THEN /\ sres' = [sres EXCEPT ![s] = ErrCheck(Check(msg))]
            /\ spc' = [spc EXCEPT ![s] = "returned"]
            /\ UNCHANGED sdata
       ELSE /\ sdata' = [sdata EXCEPT ![s] = Append(msg, checksum(msg))]
            /\ spc' = [spc EXCEPT ![s] = "enq"]
            /\ UNCHANGED sres
    /\ UNCHANGED <<builderVars, env, nrecv, ack, chanVars, errC, readerVars, handlerVars, closeVars, rcvpc,
                   submitted, written, framedAt, atClose, okBy, failBy, consumed, forwarded, dropped, recvd, lateRecv>>

\* Mutant: Send writes the frame to the serial device itself.
SendWritesFrame(data) == <<data>>

\* Send: what the caller's goroutine writes to m.s (nothing: the frame is
\* handed to the handler on m.writeC).
SendWrites(data) == <<>>

\* m.writeC <- sm
SendEnqueue(s) ==
    /\ spc[s] = "enq"
    /\ Len(writeC) < WriteCCap
    /\ writeC' = ChanSend(writeC, s)
    /\ submitted' = Append(submitted, s)
    /\ spc' = [spc EXCEPT ![s] = "wait"]
    /\ out' = out \o SendWrites(sdata[s])
    /\ UNCHANGED <<builderVars, env, nrecv, calls, ack, rawReadC, readC, smsg, sdata, errC, sres, readerVars,
                   hpc, id, w, handleReply, retry, replyTimeout, tries, wErr, read,
                   closeVars, rcvpc, written, framedAt, atClose, okBy, failBy, consumed,
                   forwarded, dropped, recvd, lateSend, lateRecv>>

\* return <-sm.err
SendReturn(s) ==
    /\ spc[s] = "wait"
    /\ errC[s].kind # "none"
    /\ sres' = [sres EXCEPT ![s] = errC[s]]
    /\ errC' = [errC EXCEPT ![s] = IF errC[s] = ErrNil THEN ErrNil ELSE ErrNone]
    /\ spc' = [spc EXCEPT ![s] = "returned"]
    /\ UNCHANGED <<builderVars, env, nrecv, calls, ack, chanVars, smsg, sdata, readerVars, handlerVars, closeVars,
                   rcvpc, histVars>>

\* ------------------------------------------------------------------------
\* Recv
\* ------------------------------------------------------------------------
RecvCall ==
    /\ rcvpc = "idle"
    /\ nrecv < env.recvs
    /\ nrecv' = nrecv + 1
    /\ rcvpc' = "blocked"
    /\ lateRecv' = (clpc = "returned")
    /\ UNCHANGED <<builderVars, env, ack, chanVars, senderVars, readerVars, handlerVars, closeVars,
                   submitted, written, framedAt, atClose, okBy, failBy, consumed, forwarded, dropped, recvd, lateSend>>

\* return <-m.readC
RecvReturn ==
    /\ rcvpc = "blocked"
    /\ readC # <<>>
    /\ recvd' = Hist(recvd, Append(recvd, Head(readC)))
    /\ readC' = ChanRecv(readC)
    /\ rcvpc' = "idle"
    /\ UNCHANGED <<builderVars, env, nrecv, ack, writeC, rawReadC, senderVars, readerVars, handlerVars,
                   closeVars, submitted, written, framedAt, atClose, okBy, failBy, consumed, forwarded, dropped,
                   lateSend, lateRecv>>

\* ------------------------------------------------------------------------
\* Close
\* ------------------------------------------------------------------------
\* m.cancel()
CloseCall ==
    /\ env.close
    /\ clpc = "idle" \/ (clpc = "returned" /\ sClosed < env.closes)
    /\ ctxDone' = TRUE
    /\ clpc' = "wait"
    /\ atClose' = IF clpc = "idle" THEN {s \in Senders : spc[s] = "wait"} ELSE atClose
    /\ UNCHANGED <<builderVars, env, nrecv, ack, chanVars, senderVars, readerVars, handlerVars, doneClosed,
                   sClosed, rcvpc, submitted, written, framedAt, okBy, failBy, consumed, forwarded,
                   dropped, recvd, lateSend, lateRecv>>

\* <-m.done; return m.s.Close()
CloseReturn ==
    /\ clpc = "wait"
    /\ doneClosed
    /\ sClosed' = sClosed + 1
    /\ clpc' = "returned"
    /\ UNCHANGED <<builderVars, env, nrecv, ack, chanVars, senderVars, readerVars, handlerVars, ctxDone,
                   doneClosed, rcvpc, histVars>>

\* ------------------------------------------------------------------------
\* The MCU and the reader goroutine
\* ------------------------------------------------------------------------
\* The MCU puts a chunk of bytes on the line.
McuEmit(c) ==
    /\ wire = <<>>
    /\ c \in env.chunks
    /\ env.endless \/ nframes < env.frames
    /\ wire' = c
    /\ nframes' = IF env.endless THEN nframes ELSE nframes + 1
    /\ UNCHANGED <<builderVars, env, nrecv, ack, chanVars, senderVars, rpc, raw, rframe, framed, handlerVars,
                   closeVars, rcvpc, histVars>>

\* Mutant: read goes on with the assembler as the parsing error left it.
KeepAfterParseError(m) == m

\* read: continue after a parsing error, and raw.Reset() at the top of the
\* loop.
AfterParseError(m) == ResetRaw

\* read: one copyBytes call over the bytes on the line.  On EOF the frame is
\* complete; on a parsing error the loop continues with raw.Reset().
ReaderRead ==
    /\ rpc = "read"
    /\ wire # <<>>
    /\ \E r \in {copyBytes(raw, wire)} :
           /\ wire' = r.rest
           /\ IF r.err = "EOF"
              THEN /\ rframe' = [tag |-> IF env.tagged THEN Len(framed) + 1 ELSE 0,
                                   b |-> r.raw.buf]
                   /\ framed' = Hist(framed, Append(framed, r.raw.buf))
                   /\ raw' = r.raw
                   /\ rpc' = "send"
              ELSE IF r.err = "more"
              THEN /\ raw' = r.raw
                   /\ UNCHANGED <<rframe, framed, rpc>>
              ELSE /\ raw' = AfterParseError(r.raw)
                   /\ UNCHANGED <<rframe, framed, rpc>>
    /\ UNCHANGED <<builderVars, env, nrecv, ack, chanVars, senderVars, nframes, handlerVars, closeVars, rcvpc,
                   histVars>>

\* read: m.rawReadC <- b, then raw.Reset() at the top of the loop.
ReaderSend ==
    /\ rpc = "send"
    /\ Len(rawReadC) < RawReadCCap
    /\ rawReadC' = ChanSend(rawReadC, rframe)
    /\ rframe' = NoMessage
    /\ raw' = ResetRaw
    /\ rpc' = "read"
    /\ UNCHANGED <<builderVars, env, nrecv, ack, writeC, readC, senderVars, wire, nframes, framed, handlerVars,
                   closeVars, rcvpc, histVars>>

\* read: ReadByte fails with a transport error; the goroutine returns.
ReaderFatal ==
    /\ rpc = "read"
    /\ env.readFails
    /\ rpc' = "dead"
    /\ UNCHANGED <<builderVars, env, nrecv, ack, chanVars, senderVars, wire, nframes, raw, rframe, framed,
                   handlerVars, closeVars, rcvpc, histVars>>

\* ------------------------------------------------------------------------
\* The handler goroutine
\* ------------------------------------------------------------------------
\* time.After(w.replyTimeout) delivers on its channel (env.timeouts bounds
\* how many tries of a send time out).
TimerFire ==
    /\ replyTimeout = "armed"
    /\ tries <= env.timeouts
    /\ replyTimeout' = "fired"
    /\ UNCHANGED <<builderVars, env, nrecv, ack, chanVars, senderVars, readerVars, hpc, id, w, handleReply,
                   retry, tries, wErr, read, out, closeVars, rcvpc, histVars>>

\* Mutant: one flush frame is written instead of two.
forceFlushOnce == Append(flushMCUBuffer, checksum(flushMCUBuffer))

\* forceFlushMCU: the bytes of its single Write.
forceFlushData ==
    LET data == Append(flushMCUBuffer, checksum(flushMCUBuffer))
    IN  data \o data

\* retry: time.After(w.replyTimeout)
ArmTimer == "armed"

\* Mutant: the limit is compared with >=.
RetryLimitExceededGe(t, limit) == t >= limit

\* retry: tries > w.retryLimit
RetryLimitExceeded(t, limit) == t > limit

\* Mutant: handleReply takes only OK replies.
ReplyMatchesOkOnly(reply, data) ==
    Type(reply) = Reply /\ Function(reply) = Function(data) /\ Ok(reply)

\* Mutant: handleReply does not look at the kind of the frame.
ReplyMatchesAnyType(reply, data) == Function(reply) = Function(data)

\* handleReply: reply.Type() == Reply && reply.Function() == w.data.Function()
ReplyMatches(reply, data) == Type(reply) = Reply /\ Function(reply) = Function(data)

\* Mutant: the pending reply timeout does not keep the handler from m.writeC.
PrioritizeReadNoTimeout == Len(rawReadC) > 0

\* handle: len(m.rawReadC) > 0 || replyTimeout != nil
PrioritizeRead == Len(rawReadC) > 0 \/ replyTimeout # "nil"

\* Mutant: the closures of a completed send are dropped but its timer is kept.
ClearClosuresOnly ==
    /\ handleReply' = FALSE
    /\ retry' = FALSE
    /\ w' = 0
    /\ tries' = 0
    /\ wErr' = FALSE
    /\ UNCHANGED replyTimeout

\* Mutant: the closures and the timer of a completed send are kept.
KeepPending == UNCHANGED <<handleReply, retry, replyTimeout, w, tries, wErr>>

\* handleReply, retry and replyTimeout are set to nil: the closures of the
\* send, with their variables w, tries and wErr, are dropped.
ClearPending ==
    /\ handleReply' = FALSE
    /\ retry' = FALSE
    /\ replyTimeout' = "nil"
    /\ w' = 0
    /\ tries' = 0
    /\ wErr' = FALSE

\* Mutant: a retry writes the message with a checksum byte of its own.
AttemptDataRestamped(ww, t) == IF t = 0 THEN sdata[ww] ELSE Append(smsg[ww], t % 256)

\* retry: the bytes of m.write(w.data) in the try after t tries.
AttemptData(ww, t) == sdata[ww]

\* retry(), called for sendMessage ww with the closure variables tries = t and
\* wErr = we, after the writes pre were made in the same step.  m.write may
\* fail with a transport error.
retryCall(pre, ww, t, we) ==
    IF RetryLimitExceeded(t, DefaultRetryLimit)
    THEN /\ errC' = [errC EXCEPT ![ww] = ErrRetry(t - 1, DefaultRetryLimit, we)]
         /\ ClearPending
         /\ out' = pre
         /\ UNCHANGED <<written, framedAt>>
    ELSE /\ \E ok \in (IF env.writeFails THEN BOOLEAN ELSE {TRUE}) : wErr' = (we \/ ~ok)
         /\ tries' = t + 1
         /\ out' = Append(pre, AttemptData(ww, t))
         /\ written' = written \cup {ww}
         /\ framedAt' = IF ww \in written THEN framedAt
                         ELSE [framedAt EXCEPT ![ww] = Len(framed)]
         /\ replyTimeout' = ArmTimer
         /\ handleReply' = TRUE
         /\ retry' = TRUE
         /\ w' = ww
         /\ UNCHANGED errC

\* handle: the top of the loop, deciding which select is entered.
HandleLoop ==
    /\ hpc = "top"
    /\ hpc' = IF PrioritizeRead THEN "sel1" ELSE "sel2"
    /\ out' = <<>>
    /\ UNCHANGED <<builderVars, env, nrecv, ack, chanVars, senderVars, readerVars, id, w, handleReply, retry,
                   replyTimeout, tries, wErr, read, closeVars, rcvpc, histVars>>

\* handle: case read = <-m.rawReadC (either select), then
\* len(read) == 0 || (handleReply != nil && handleReply(read)).
HandleRecv ==
    /\ hpc \in {"sel1", "sel2"}
    /\ rawReadC # <<>>
    /\ LET r == Head(rawReadC)
       IN  /\ rawReadC' = ChanRecv(rawReadC)
           /\ out' = <<>>
           /\ IF Len(r.b) = 0
              THEN /\ hpc' = "top"
                   /\ UNCHANGED <<read, consumed, errC, okBy, failBy, handleReply, retry,
                                  replyTimeout, w, tries, wErr>>
              ELSE IF handleReply /\ ReplyMatches(r.b, sdata[w])
              THEN /\ hpc' = "top"
                   /\ consumed' = Hist(consumed, consumed \cup {r.tag})
                   /\ UNCHANGED read
                   /\ IF Ok(r.b)
                      THEN /\ errC' = [errC EXCEPT ![w] = ErrNil]
                           /\ okBy' = [okBy EXCEPT ![w] = r.b]
                           /\ UNCHANGED failBy
                           /\ ClearPending
                      ELSE /\ failBy' = [failBy EXCEPT ![w] = r.b]
                           /\ UNCHANGED <<errC, okBy, handleReply, retry, replyTimeout,
                                          w, tries, wErr>>
              ELSE /\ hpc' = "dispatch"
                   /\ read' = r
                   /\ UNCHANGED <<consumed, errC, okBy, failBy, handleReply, retry,
                                  replyTimeout, w, tries, wErr>>
    /\ UNCHANGED <<builderVars, env, nrecv, ack, writeC, readC, calls, spc, smsg, sdata, sres, readerVars, id,
                   closeVars, rcvpc, submitted, written, framedAt, atClose, forwarded, dropped,
                   recvd, lateSend, lateRecv>>

\* handle: case <-replyTimeout: forceFlushMCU(); retry()
HandleTimeout ==
    /\ hpc = "sel1"
    /\ replyTimeout = "fired"
    /\ retryCall(<<forceFlushData>>, w, tries, wErr)
    /\ hpc' = "top"
    /\ UNCHANGED <<builderVars, env, nrecv, ack, chanVars, calls, spc, smsg, sdata, sres, readerVars, id, read,
                   closeVars, rcvpc, submitted, atClose,
                   okBy, failBy, consumed, forwarded, dropped, recvd, lateSend, lateRecv>>

\* handle: case w := <-m.writeC: id++, install handleReply and retry, retry().
HandleWrite ==
    /\ hpc = "sel2"
    /\ writeC # <<>>
    /\ writeC' = ChanRecv(writeC)
    /\ id' = id + 1
    /\ retryCall(<<>>, Head(writeC), 0, FALSE)
    /\ hpc' = "top"
    /\ UNCHANGED <<builderVars, env, nrecv, ack, rawReadC, readC, calls, spc, smsg, sdata, sres, readerVars, read,
                   closeVars, rcvpc, submitted, atClose,
                   okBy, failBy, consumed, forwarded, dropped, recvd, lateSend, lateRecv>>

\* handle: case <-m.ctx.Done(): return, and the deferred close(m.done).
HandleCancel ==
    /\ hpc \in {"sel1", "sel2"}
    /\ ctxDone
    /\ hpc' = "exit"
    /\ doneClosed' = TRUE
    /\ out' = <<>>
    /\ UNCHANGED <<builderVars, env, nrecv, ack, chanVars, senderVars, readerVars, id, w, handleReply, retry,
                   replyTimeout, tries, wErr, read, ctxDone, sClosed, clpc, rcvpc,
                   histVars>>

\* Mutant: the ack reply is written whatever m.opts.ack is.
AckWritesAlways(rd) ==
    IF Type(rd) = Command
    THEN <<Append(ReplyOk(rd), checksum(ReplyOk(rd)))>>
    ELSE <<>>

\* handle: the ack reply written for read (none unless it is a Command and
\* m.opts.ack is set).
AckWrites(rd) ==
    IF Type(rd) = Command /\ ack
    THEN <<Append(ReplyOk(rd), checksum(ReplyOk(rd)))>>
    ELSE <<>>

\* handle: switch read.Type(), then read = read[:len(read)-1].
HandleDispatch ==
    /\ hpc = "dispatch"
    /\ out' = AckWrites(read.b)
    /\ read' = [read EXCEPT !.b = SubSeq(read.b, 1, Len(read.b) - 1)]
    /\ hpc' = "fwd"
    /\ UNCHANGED <<builderVars, env, nrecv, ack, chanVars, senderVars, readerVars, id, w, handleReply, retry,
                   replyTimeout, tries, wErr, closeVars, rcvpc, histVars>>

\* handle: select { case m.readC <- read: ... default: ... }
HandleForward ==
    /\ hpc = "fwd"
    /\ out' = <<>>
    /\ IF Len(readC) < ReadCCap
       THEN /\ readC' = ChanSend(readC, read)
            /\ forwarded' = Hist(forwarded, Append(forwarded, read))
            /\ read' = NoMessage
            /\ hpc' = "top"
       ELSE /\ hpc' = "drop"
            /\ UNCHANGED <<readC, forwarded, read>>
    /\ UNCHANGED <<builderVars, env, nrecv, ack, writeC, rawReadC, senderVars, readerVars, id, w, handleReply,
                   retry, replyTimeout, tries, wErr, closeVars, rcvpc, submitted, written, framedAt, atClose, okBy, failBy,
                   consumed, dropped, recvd, lateSend, lateRecv>>

\* Mutant: nothing is taken off the full queue.
DiscardNothing(c) == c

\* Mutant: the newest queued message is discarded.
DiscardLatest(c) == SubSeq(c, 1, Len(c) - 1)

\* handle: case <-m.readC: "buffer full, discarded earliest message"
DiscardEarliest(c) == ChanRecv(c)

\* handle: select { case <-m.readC: ... default: }
HandleDrop ==
    /\ hpc = "drop"
    /\ out' = <<>>
    /\ IF readC # <<>>
       THEN /\ readC' = DiscardEarliest(readC)
            /\ dropped' = Hist(dropped, dropped \cup {Head(readC).tag})
       ELSE UNCHANGED <<readC, dropped>>
    /\ hpc' = "put"
    /\ UNCHANGED <<builderVars, env, nrecv, ack, writeC, rawReadC, senderVars, readerVars, id, w, handleReply,
                   retry, replyTimeout, tries, wErr, read, closeVars, rcvpc, submitted, written, framedAt, atClose,
                   okBy, failBy, consumed, forwarded, recvd, lateSend, lateRecv>>

\* handle: m.readC <- read (after the default branch)
HandlePut ==
    /\ hpc = "put"
    /\ Len(readC) < ReadCCap
    /\ out' = <<>>
    /\ readC' = ChanSend(readC, read)
    /\ forwarded' = Hist(forwarded, Append(forwarded, read))
    /\ read' = NoMessage
    /\ hpc' = "top"
    /\ UNCHANGED <<builderVars, env, nrecv, ack, writeC, rawReadC, senderVars, readerVars, id, w, handleReply,
                   retry, replyTimeout, tries, wErr, closeVars, rcvpc, submitted, written, framedAt, atClose, okBy, failBy,
                   consumed, dropped, recvd, lateSend, lateRecv>>

\* ------------------------------------------------------------------------
\* Specification
\* ------------------------------------------------------------------------
Next ==
    \/ \E s \in Senders, msg \in SendMsgs : SendCall(s, msg)
    \/ \E s \in Senders : SendEnqueue(s)
    \/ \E s \in Senders : SendReturn(s)
    \/ RecvCall
    \/ RecvReturn
    \/ CloseCall
    \/ CloseReturn
    \/ \E c \in InChunks : McuEmit(c)
    \/ ReaderRead
    \/ ReaderSend
    \/ ReaderFatal
    \/ TimerFire
    \/ HandleLoop
    \/ HandleRecv
    \/ HandleTimeout
    \/ HandleWrite
    \/ HandleCancel
    \/ HandleDispatch
    \/ HandleForward
    \/ HandleDrop
    \/ HandlePut

\* One application task calls Send once with any of SendMsgs, one calls Recv
\* once and Close may be called; the MCU sends one chunk; reads of the
\* serial device may fail.  The receive queue starts empty or full.
EnvSolo ==
    [sends |-> 1, msgs |-> SendMsgs, recvs |-> 1, close |-> TRUE,
     frames |-> 1, endless |-> FALSE, tagged |-> FALSE,
     chunks |-> {ReplyOnOk, ReplyOnErr, ReplyEmpty0x0F, ButtonUp},
     readFails |-> TRUE, writeFails |-> FALSE, closes |-> 1,
     timeouts |-> DefaultRetryLimit + 1]

Init == InitWith(EnvSolo, {FALSE}, {0, ReadCCap})

Spec == Init /\ [][Next]_vars

\* One Send(DisplayOn); the MCU answers every frame with the error reply
\* 0xF1 0x01 0x11 0x02, for as long as it answers at all.
EnvRetry ==
    [sends |-> 1, msgs |-> {DisplayOn}, recvs |-> 1, close |-> TRUE,
     frames |-> 0, endless |-> TRUE, tagged |-> FALSE, chunks |-> {ReplyOnErr},
     readFails |-> TRUE, writeFails |-> FALSE, closes |-> 1,
     timeouts |-> DefaultRetryLimit + 1]

InitRetry == InitWith(EnvRetry, {FALSE}, {0})

SpecRetry == InitRetry /\ [][Next]_vars

\* NumSenders application tasks call Send(DisplayOn); the MCU sends one OK
\* reply, at any time.
EnvFifo ==
    [sends |-> NumSenders, msgs |-> {DisplayOn}, recvs |-> 1, close |-> TRUE,
     frames |-> 1, endless |-> FALSE, tagged |-> FALSE,
     chunks |-> {ReplyOnOk},
     readFails |-> TRUE, writeFails |-> FALSE, closes |-> 1,
     timeouts |-> DefaultRetryLimit + 1]

InitFifo == InitWith(EnvFifo, {FALSE}, {ReadCCap})

SpecFifo == InitFifo /\ [][Next]_vars

\* The engine is never closed and the application never calls Recv: one
\* Send(DisplayOn); the MCU sends button presses without end and never
\* replies; the reader may terminate.  Goroutines that can run do run, armed
\* timers fire, and a select with several ready cases picks each of them
\* again and again (Go chooses among ready cases at random).  Nothing is
\* assumed of the application or of the MCU.  Without Close, m.ctx.Done() is
\* never ready, so that select case is left out.
EnvLive ==
    [sends |-> 1, msgs |-> {DisplayOn}, recvs |-> 0, close |-> FALSE,
     frames |-> 0, endless |-> TRUE, tagged |-> FALSE, chunks |-> {ButtonUp},
     readFails |-> TRUE, writeFails |-> FALSE, closes |-> 1,
     timeouts |-> DefaultRetryLimit + 1]

NextLive ==
    \/ \E s \in Senders, msg \in SendMsgs : SendCall(s, msg)
    \/ \E s \in Senders : SendEnqueue(s)
    \/ \E s \in Senders : SendReturn(s)
    \/ \E c \in InChunks : McuEmit(c)
    \/ ReaderRead
    \/ ReaderSend
    \/ ReaderFatal
    \/ TimerFire
    \/ HandleLoop
    \/ HandleRecv
    \/ HandleTimeout
    \/ HandleWrite
    \/ HandleDispatch
    \/ HandleForward
    \/ HandleDrop
    \/ HandlePut

InitLive == InitWith(EnvLive, {FALSE}, {0})

\* The steps of handle that are no select case.
HandleProceed ==
    HandleLoop \/ HandleDispatch \/ HandleForward \/ HandleDrop \/ HandlePut

ReaderStep == ReaderRead \/ ReaderSend

SendStep == \E s \in Senders : SendEnqueue(s) \/ SendReturn(s)

Fairness ==
    /\ WF_vars(HandleProceed)
    /\ SF_vars(HandleRecv)
    /\ SF_vars(HandleTimeout)
    /\ SF_vars(HandleWrite)
    /\ WF_vars(TimerFire)
    /\ WF_vars(ReaderStep)
    /\ WF_vars(SendStep)

SpecLive == InitLive /\ [][NextLive]_vars /\ Fairness

\* The application drains the queue with MaxRecvs Recv calls while the MCU
\* sends MaxFrames frames, with or without protocol ack; every frame is
\* numbered in the order the reader framed it.
EnvRecv ==
    [sends |-> 1, msgs |-> {DisplayOn}, recvs |-> MaxRecvs, close |-> TRUE,
     frames |-> MaxFrames, endless |-> FALSE, tagged |-> TRUE,
     chunks |-> {ReplyOnOk, ButtonUp, CmdOn},
     readFails |-> TRUE, writeFails |-> FALSE, closes |-> 1,
     timeouts |-> MaxTimeouts]

InitRecv == InitWith(EnvRecv, BOOLEAN, {0, ReadCCap})

SpecRecv == InitRecv /\ [][Next]_vars

\* The MCU sends version reports, flush replies and OK replies, with or without
\* protocol ack; every frame is numbered in the order the reader framed it.
EnvHouse ==
    [sends |-> 1, msgs |-> {DisplayOn}, recvs |-> 1, close |-> TRUE,
     frames |-> MaxFrames, endless |-> FALSE, tagged |-> TRUE,
     chunks |-> {CmdVersion, ReplyFlushOk, ReplyOnOk},
     readFails |-> TRUE, writeFails |-> FALSE, closes |-> 1,
     timeouts |-> MaxTimeouts]

InitHouse == InitWith(EnvHouse, BOOLEAN, {0, ReadCCap})

SpecHouse == InitHouse /\ [][Next]_vars

\* The MCU sends OK replies, error replies and flush replies while one
\* Send(DisplayOn) is made at any time; every frame is numbered in the order
\* the reader framed it.
EnvReply ==
    [sends |-> 1, msgs |-> {DisplayOn}, recvs |-> 1, close |-> TRUE,
     frames |-> MaxFrames, endless |-> FALSE, tagged |-> TRUE,
     chunks |-> {ReplyOnOk, ReplyOnErr, ReplyFlushOk},
     readFails |-> TRUE, writeFails |-> FALSE, closes |-> 1,
     timeouts |-> MaxTimeouts]

InitReply == InitWith(EnvReply, {FALSE}, {0, ReadCCap})

SpecReply == InitReply /\ [][Next]_vars

\* The line is noisy: the MCU sends OK replies, and bytes that end in a parse
\* error (an OK reply or a button frame with a wrong checksum, an invalid
\* first byte, a LEN byte of 17) followed by a valid button frame, while one
\* Send(DisplayOn) is made at any time.  The receive queue starts full, and
\* every frame is numbered in the order the reader framed it.
EnvNoise ==
    [sends |-> 1, msgs |-> {DisplayOn}, recvs |-> 1, close |-> TRUE,
     frames |-> MaxFrames, endless |-> FALSE, tagged |-> TRUE,
     chunks |-> {ReplyOnOk, BadReplyThenButton, BadSumThenButton,
                 BadKindThenButton, TooLongThenButton},
     readFails |-> TRUE, writeFails |-> FALSE, closes |-> 1,
     timeouts |-> MaxTimeouts]

InitNoise == InitWith(EnvNoise, {FALSE}, {ReadCCap})

SpecNoise == InitNoise /\ [][Next]_vars

\* The MCU sends OK replies, button frames and a Reply frame whose LEN byte
\* is 0 while the application calls Send(DisplayOn) and Recv; every frame is
\* numbered in the order the reader framed it.
EnvZeroLen ==
    [sends |-> 1, msgs |-> {DisplayOn}, recvs |-> 1, close |-> TRUE,
     frames |-> MaxFrames, endless |-> FALSE, tagged |-> TRUE,
     chunks |-> {ReplyOnOk, ButtonUp, ReplyEmpty0x0F},
     readFails |-> TRUE, writeFails |-> FALSE, closes |-> 1,
     timeouts |-> MaxTimeouts]

InitZeroLen == InitWith(EnvZeroLen, {FALSE}, {0, ReadCCap})

SpecZeroLen == InitZeroLen /\ [][Next]_vars

\* The application calls Send NumSenders times, with valid and invalid
\* messages; the MCU answers with one OK reply.
EnvCheck ==
    [sends |-> NumSenders,
     msgs |-> {DisplayOn, ShortMessage, UnknownTypeMessage, WrongLengthMessage},
     recvs |-> 1, close |-> TRUE,
     frames |-> 1, endless |-> FALSE, tagged |-> FALSE,
     chunks |-> {ReplyOnOk},
     readFails |-> TRUE, writeFails |-> FALSE, closes |-> 1,
     timeouts |-> MaxTimeouts]

InitCheck == InitWith(EnvCheck, {FALSE}, {0, ReadCCap})

SpecCheck == InitCheck /\ [][Next]_vars

\* The application calls Close up to MaxCloses times while the MCU keeps
\* sending OK replies.
EnvClose ==
    [sends |-> 1, msgs |-> {DisplayOn}, recvs |-> 1, close |-> TRUE,
     frames |-> 0, endless |-> TRUE, tagged |-> FALSE,
     chunks |-> {ReplyOnOk},
     readFails |-> TRUE, writeFails |-> FALSE, closes |-> MaxCloses,
     timeouts |-> MaxTimeouts]

InitClose == InitWith(EnvClose, {FALSE}, {0})

SpecClose == InitClose /\ [][Next]_vars

\* Writes to the serial device may fail with a transport error; the MCU
\* answers with one OK reply.
EnvWrite ==
    [sends |-> 1, msgs |-> {DisplayOn}, recvs |-> 1, close |-> TRUE,
     frames |-> 1, endless |-> FALSE, tagged |-> FALSE,
     chunks |-> {ReplyOnOk},
     readFails |-> TRUE, writeFails |-> TRUE, closes |-> 1,
     timeouts |-> MaxTimeouts]

InitWrite == InitWith(EnvWrite, {FALSE}, {0, ReadCCap})

SpecWrite == InitWrite /\ [][Next]_vars

\* ------------------------------------------------------------------------
\* The message builders, called by the application on its own
\* ------------------------------------------------------------------------
\* A text of n bytes: the letters A, B, C, ...
Letters(n) == [k \in 1..n |-> 64 + k]

SdLines == {-1, DisplayTop, DisplayBottom, 2}
SdIndents == {-1, 0, 7, 15, 16, 256}
SdTexts == {Letters(n) : n \in 0..MaxTextLen}

\* raw, err := SetDisplay(line, indent, text)
SetDisplayCall ==
    /\ sdRet.err = "none"
    /\ sdRet' = SetDisplay(sdArgs.line, sdArgs.indent, sdArgs.text)
    /\ UNCHANGED <<engineVars, sdArgs, scroll, scrollRet, chars, charsRet, rtMsg, rtRet>>

InitDisplay ==
    /\ Open(EnvSolo, {FALSE}, {0})
    /\ sdArgs \in [line : SdLines, indent : SdIndents, text : SdTexts]
    /\ sdRet = [raw |-> <<>>, err |-> "none"]
    /\ scroll = [line |-> 0, text |-> <<>>, i |-> 0, done |-> FALSE]
    /\ scrollRet = <<>>
    /\ chars = [i |-> 0, done |-> FALSE, backs |-> 0]
    /\ charsRet = <<>>
    /\ rtMsg = <<>>
    /\ rtRet = [raw |-> ResetRaw, rest |-> <<>>, err |-> "none"]

SpecDisplay == InitDisplay /\ [][SetDisplayCall]_vars

\* b, start, done := next(), in the loop that ends on start && done
ScrollCall ==
    /\ IF scrollRet = <<>> THEN TRUE
       ELSE ~(scrollRet[Len(scrollRet)].start /\ scrollRet[Len(scrollRet)].done)
    /\ scroll' = ScrollNext(scroll).sc
    /\ scrollRet' = Append(scrollRet, ScrollNext(scroll).ret)
    /\ UNCHANGED <<engineVars, sdArgs, sdRet, chars, charsRet, rtMsg, rtRet>>

\* next := Scroll(line, text)
InitScroll ==
    /\ Open(EnvSolo, {FALSE}, {0})
    /\ sdArgs = [line |-> 0, indent |-> 0, text |-> <<>>]
    /\ sdRet = [raw |-> <<>>, err |-> "none"]
    /\ \E line \in {DisplayTop, DisplayBottom}, n \in 0..MaxScrollLen :
          scroll = [line |-> line, text |-> Letters(n), i |-> 0, done |-> FALSE]
    /\ scrollRet = <<>>
    /\ chars = [i |-> 0, done |-> FALSE, backs |-> 0]
    /\ charsRet = <<>>
    /\ rtMsg = <<>>
    /\ rtRet = [raw |-> ResetRaw, rest |-> <<>>, err |-> "none"]

SpecScroll == InitScroll /\ [][ScrollCall]_vars

\* b, start, done := next(), on a producer that is kept in use after its
\* first rotation
ScrollKeepCalling ==
    /\ Len(scrollRet) < MaxScrollCalls
    /\ scroll' = ScrollNext(scroll).sc
    /\ scrollRet' = Append(scrollRet, ScrollNext(scroll).ret)
    /\ UNCHANGED <<engineVars, sdArgs, sdRet, chars, charsRet, rtMsg, rtRet>>

SpecRotate == InitScroll /\ [][ScrollKeepCalling]_vars

\* line1, line2, start, done := next()
CharsNextCall ==
    /\ Len(charsRet) < MaxCharCalls
    /\ chars' = CharsNext(chars).c
    /\ charsRet' = Append(charsRet, CharsNext(chars).ret)
    /\ UNCHANGED <<engineVars, sdArgs, sdRet, scroll, scrollRet, rtMsg, rtRet>>

\* goBack()
CharsGoBackCall ==
    /\ chars.backs < MaxGoBacks
    /\ chars' = GoBack(chars)
    /\ UNCHANGED <<engineVars, sdArgs, sdRet, scroll, scrollRet, charsRet, rtMsg, rtRet>>

\* next, goBack := ShowAllCharCodes()
InitChars == Open(EnvSolo, {FALSE}, {0}) /\ BuildersIdle

NextChars == CharsNextCall \/ CharsGoBackCall

SpecChars == InitChars /\ [][NextChars]_vars

\* The messages tried on the round trip: Commands and Replies with 0 to
\* MaxPayload payload bytes, and a message made by SetDisplay.
RtMsgs ==
    {<<t, n, f>> \o Letters(n) :
        t \in {Command, Reply}, n \in 0..MaxPayload, f \in {fflush, Fon, Ftext}}
    \cup {SetDisplay(DisplayTop, 0, Letters(3)).raw}

\* Send builds the outbound frame of a message that passes Check
\* (msg + checksum); the frame is fed to a reset inbound assembler.
RoundTripCall ==
    /\ rtRet.err = "none"
    /\ Check(rtMsg) = "nil"
    /\ rtRet' = copyBytes(ResetRaw, Append(rtMsg, checksum(rtMsg)))
    /\ UNCHANGED <<engineVars, sdArgs, sdRet, scroll, scrollRet, chars, charsRet, rtMsg>>

InitRoundTrip ==
    /\ Open(EnvSolo, {FALSE}, {0})
    /\ sdArgs = [line |-> 0, indent |-> 0, text |-> <<>>]
    /\ sdRet = [raw |-> <<>>, err |-> "none"]
    /\ scroll = [line |-> 0, text |-> <<>>, i |-> 0, done |-> FALSE]
    /\ scrollRet = <<>>
    /\ chars = [i |-> 0, done |-> FALSE, backs |-> 0]
    /\ charsRet = <<>>
    /\ rtMsg \in RtMsgs
    /\ rtRet = [raw |-> ResetRaw, rest |-> <<>>, err |-> "none"]

SpecRoundTrip == InitRoundTrip /\ [][RoundTripCall]_vars

\* n bytes b
RECURSIVE Fill(_, _)
Fill(n, b) == IF n = 0 THEN <<>> ELSE Append(Fill(n - 1, b), b)

\* Byte streams on the serial line: a kind byte, a LEN byte, 0 to MaxBody
\* further bytes, a last byte that is or is not the 8-bit sum of the bytes
\* before it, and then nothing or the valid frame F0 01 11 01 03.
Streams ==
    {CHOOSE st \in {head \o <<(SumBytes(head) + d) % 256>> \o trail} : TRUE :
        head \in {<<k, l>> \o Fill(n, b) :
                     k \in {Command, Reply, 66}, l \in {0, 1, 2, 16, 17, 253},
                     n \in 0..MaxBody, b \in {0, 255}},
        d \in {0, 1},
        trail \in {<<>>, CmdOn}}

\* read and copyBytes: one byte of the stream is read and written to the
\* assembler, which read has Reset if the previous byte ended a frame or
\* failed.
FeedByte ==
    /\ rtRet.rest # <<>>
    /\ \E r \in {WriteByte(IF rtRet.err \in {"none", "nil"} THEN rtRet.raw ELSE ResetRaw,
                           Head(rtRet.rest))} :
           rtRet' = [raw |-> r.raw, rest |-> Tail(rtRet.rest), err |-> r.err]
    /\ UNCHANGED <<engineVars, sdArgs, sdRet, scroll, scrollRet, chars, charsRet, rtMsg>>

InitAssemble ==
    /\ Open(EnvSolo, {FALSE}, {0})
    /\ sdArgs = [line |-> 0, indent |-> 0, text |-> <<>>]
    /\ sdRet = [raw |-> <<>>, err |-> "none"]
    /\ scroll = [line |-> 0, text |-> <<>>, i |-> 0, done |-> FALSE]
    /\ scrollRet = <<>>
    /\ chars = [i |-> 0, done |-> FALSE, backs |-> 0]
    /\ charsRet = <<>>
    /\ rtMsg \in Streams
    /\ rtRet = [raw |-> ResetRaw, rest |-> rtMsg, err |-> "none"]

SpecAssemble == InitAssemble /\ [][FeedByte]_vars

\* ------------------------------------------------------------------------
\* Properties
\* ------------------------------------------------------------------------
Range(q) == {q[i] : i \in 1..Len(q)}

CheckErrors == {"message too short", "unknown message type", "wrong message length"}

\* The send has an outcome: its err channel is closed or holds an error, or
\* Send has returned.
Completed(s) == errC[s].kind # "none" \/ spc[s] = "returned"

\* C1: Send returns nil only if, after its frame was written, the handler
\* read a Reply frame with the function byte of msg whose first payload byte
\* is 0x00 (a frame F1 LEN f 00 ... with LEN >= 1); every other return is a
\* Check error or the retry-limit error.
C1_SendNilOnlyOnOkReply ==
    \A s \in Senders :
        spc[s] = "returned" =>
            /\ sres[s].kind \in {"nil", "retry limit exceeded"} \cup CheckErrors
            /\ sres[s].kind = "nil" =>
                  /\ s \in written
                  /\ Len(okBy[s]) >= 4
                  /\ okBy[s][1] = 241
                  /\ okBy[s][3] = smsg[s][3]
                  /\ okBy[s][2] >= 1
                  /\ okBy[s][4] = 0

\* C2 (as claimed): the frame of one send is written at most
\* DefaultRetryLimit = 50 times.
C2_AtMostRetryLimitWrites == tries <= 50

\* C2 (amended): the frame of one send is written at most 51 times (the
\* first try and 50 retries), and the retry-limit error is returned only
\* after 51 writes: it reports 50 of 50 retries.
C2_AtMostRetryLimitPlusOneWrites ==
    /\ tries <= 51
    /\ \A s \in Senders :
          errC[s].kind = "retry limit exceeded" =>
              /\ errC[s].tries = 50
              /\ errC[s].limit = 50
    /\ \A s \in Senders :
          sres[s].kind = "retry limit exceeded" =>
              /\ sres[s].tries = 50
              /\ sres[s].limit = 50

\* C2 witness: Send has returned the retry-limit error after the MCU
\* answered with the error reply.
C2_Witness ==
    /\ spc[1] = "returned"
    /\ sres[1].kind = "retry limit exceeded"
    /\ nrecv = 0

\* C3: when Close was called with a Send waiting for its outcome, the Send
\* is not left blocked: once the handler has exited, it has an outcome.
C3_CloseCompletesPendingSend ==
    hpc = "exit" => \A s \in atClose : Completed(s)

\* C4: no Send call made after Close returned leaves a message on the
\* outbound queue (where it would never be processed).
C4_NoWorkQueuedAfterClose ==
    \A s \in lateSend : s \notin Range(writeC)

\* C5: sends complete in submission order: the frame of a send is not
\* written before every send submitted earlier has its outcome.
C5_FifoCompletion ==
    \A i, j \in 1..Len(submitted) :
        (i < j /\ submitted[j] \in written) => Completed(submitted[i])

\* C5 witness: the second send's frame has been written.
C5_Witness ==
    /\ Len(submitted) >= 2
    /\ submitted[2] \in written
    /\ sres[submitted[1]].kind = "retry limit exceeded"


\* C6 (as claimed): unless Close is called, every Send that passed Check
\* eventually returns, whatever the MCU sends.
C6_EverySendReturns ==
    \A s \in Senders :
        [](spc[s] \in {"enq", "wait"} => <>(spc[s] = "returned" \/ ctxDone))

\* C6, from the point where the handler has taken the send from the
\* outbound queue: unless Close is called, such a Send eventually returns.
C6_DequeuedSendReturns ==
    \A s \in Senders : [](w = s => <>(spc[s] = "returned" \/ ctxDone))

\* C6 witness: with the reader terminated and the engine not closed, the
\* send has returned after exhausting its retries.
C6_Witness ==
    /\ spc[1] = "returned"
    /\ sres[1].kind = "retry limit exceeded"
    /\ rpc = "dead"
    /\ ~ctxDone

\* The frame numbered t as the handler forwards it: without its checksum.
Stripped(t) == SubSeq(framed[t], 1, Len(framed[t]) - 1)

\* The frame numbered t is still on its way to the forwarding step.
InPipeline(t) ==
    \/ rframe.tag = t
    \/ \E i \in DOMAIN rawReadC : rawReadC[i].tag = t
    \/ read.tag = t

\* C7: every Command frame the reader framed is, once the handler is done
\* with it, on record as placed on the receive queue exactly once, as its
\* bytes without the checksum, and never taken as the reply to a send.
C7_CommandForwardedOnce ==
    \A t \in 1..Len(framed) :
        Type(framed[t]) = Command =>
            /\ t \notin consumed
            /\ Cardinality({i \in DOMAIN forwarded : forwarded[i].tag = t})
                  = IF InPipeline(t) THEN 0 ELSE 1
            /\ \A i \in DOMAIN forwarded :
                  forwarded[i].tag = t => forwarded[i].b = Stripped(t)

\* C7 witness: with protocol ack enabled and a send to function 0x11 in
\* flight, the Command frame F0 01 11 01 has been forwarded.
C7_Witness ==
    /\ ack
    /\ handleReply
    /\ hpc = "top"
    /\ \E i \in DOMAIN forwarded :
          /\ forwarded[i].b = <<240, 1, 17, 1>>
          /\ framed[forwarded[i].tag] = CmdOn

\* C8: what successive Recv calls returned is a subsequence of the framed
\* frames in framing order (each without its checksum), and a frame framed
\* before a returned one is missing only if it was dropped on overflow or
\* consumed as the reply to a send.
C8_RecvInFramingOrder ==
    /\ \A i \in DOMAIN recvd :
          /\ recvd[i].tag \in 1..Len(framed)
          /\ recvd[i].b = Stripped(recvd[i].tag)
    /\ \A i, j \in DOMAIN recvd : i < j => recvd[i].tag < recvd[j].tag
    /\ \A i \in DOMAIN recvd :
          \A t \in 1..(recvd[i].tag - 1) :
              \/ t \in dropped
              \/ t \in consumed
              \/ \E j \in 1..i : recvd[j].tag = t

\* C8 witness: two Recv calls have returned, with a dropped frame missing
\* between what they returned.
C8_Witness ==
    /\ Len(recvd) >= 2
    /\ recvd[2].tag > recvd[1].tag + 1
    /\ \E t \in dropped : recvd[1].tag < t /\ t < recvd[2].tag

\* C9: the receive queue holds at most 5 messages, and the send that
\* follows the overflow branch finds room: the handler does not block.
C9_QueueBoundedNeverBlocks ==
    /\ Len(readC) <= 5
    /\ hpc = "put" => Len(readC) < 5

\* C9 witness: the queue was full at the forwarding step, a Recv call took
\* a message, and the handler discarded another one.
C9_Witness ==
    /\ hpc = "put"
    /\ Len(readC) = 3
    /\ Len(recvd) >= 1

\* The ack frame for function f: F1 01 f 00 and its checksum.
AckFrame(f) == <<241, 1, f, 0, (241 + 1 + f + 0) % 256>>

\* C10: when the handler reaches the forwarding step with a Command of
\* function f # 0x13, it has just written exactly the frame F1 01 f 00 +
\* checksum if protocol ack is enabled and nothing if not; the message is
\* not yet on the receive queue, and forwarding writes nothing.
C10_AckIffEnabled ==
    /\ (hpc = "fwd" /\ Type(read.b) = Command /\ Function(read.b) # 19) =>
          /\ out = IF ack THEN <<AckFrame(Function(read.b))>> ELSE <<>>
          /\ \A i \in DOMAIN forwarded : forwarded[i].tag # read.tag
    /\ hpc \in {"drop", "put"} => out = <<>>
    /\ (~ack /\ hpc \in {"dispatch", "fwd"}) => out = <<>>

\* C10 witness: with protocol ack enabled, the ack for a button frame has
\* been written and the frame is about to be forwarded.
C10_Witness ==
    /\ ack
    /\ hpc = "fwd"
    /\ read.b = <<240, 1, 128, 1>>
    /\ out = <<<<241, 1, 128, 0, 114>>>>

\* C11: no frame the handler writes is a Reply with function 0x13.
C11_NoAckForVersion ==
    \A i \in DOMAIN out : ~(out[i][1] = 241 /\ out[i][3] = 19)

\* C12: no message on the receive queue, and no message Recv returned, is a
\* Reply with function 0x00.
C12_FlushReplyNotForwarded ==
    /\ \A i \in DOMAIN readC : ~(readC[i].b[1] = 241 /\ readC[i].b[3] = 0)
    /\ \A i \in DOMAIN recvd : ~(recvd[i].b[1] = 241 /\ recvd[i].b[3] = 0)

\* The numbers formatted into "retry limit exceeded: %d/%d".
RetryErrorNumbers(e) == <<e.tries, e.limit>>

\* C13: the retry-limit error of a send to which the MCU replied with an
\* error carries the payload byte of the latest such reply.
C13_RetryErrorCarriesPayload ==
    \A s \in Senders :
        (sres[s].kind = "retry limit exceeded" /\ failBy[s] # <<>>) =>
            failBy[s][4] \in Range(RetryErrorNumbers(sres[s]))

\* What the claim calls a message that fails Check.
FailsCheck(m) ==
    IF Len(m) < 4 THEN TRUE
    ELSE IF m[1] # 240 /\ m[1] # 241 THEN TRUE
    ELSE m[2] + 3 # Len(m)

\* C14: a Send call with a message that fails Check has returned a
\* validation error by the end of the call's first step; that step puts
\* nothing on the outbound queue, writes nothing and leaves the state of the
\* engine as it was, and the send is never submitted or written later.
C14_InvalidSendHasNoEffect ==
    /\ [][\A s \in Senders :
            (spc[s] = "idle" /\ spc'[s] # "idle" /\ FailsCheck(smsg'[s])) =>
                /\ spc'[s] = "returned"
                /\ sres'[s].kind \in CheckErrors
                /\ UNCHANGED <<chanVars, readerVars, handlerVars, closeVars, sdata,
                               errC, submitted, written>>]_vars
    /\ [](\A s \in Senders :
            sres[s].kind \in CheckErrors =>
                /\ s \notin Range(submitted)
                /\ s \notin Range(writeC)
                /\ s \notin written
                /\ w # s)

\* C14 witness: Send has returned "wrong message length" for F0 02 11 01.
C14_Witness ==
    \E s \in Senders :
        /\ spc[s] = "returned"
        /\ smsg[s] = <<240, 2, 17, 1>>
        /\ sres[s].kind = "wrong message length"

\* The reader is blocked in m.rawReadC <- b with the channel full and the
\* handler, its only receiver, gone: it can never exit.
ReaderStuck == hpc = "exit" /\ rpc = "send" /\ Len(rawReadC) = RawReadCCap

\* C15: once Close has returned, the handler has exited and the reader has
\* exited or can still do so: it is not blocked for ever handing a frame to
\* the full inbound-frame channel.
C15_CloseStopsBothTasks ==
    clpc = "returned" => (hpc = "exit" /\ ~ReaderStuck)

\* C16: however often Close is called, the serial device is closed once.
C16_DeviceClosedOnce == sClosed <= 1

\* C17: a send for which a write of its frame failed is never completed
\* with success.
C17_WriteErrorFailsSend ==
    [][\A s \in Senders :
          (errC[s].kind = "none" /\ errC'[s].kind = "nil") => ~wErr]_vars

\* C18: for line Top or Bottom, indent in 0..15 and a text of at most 16
\* bytes, SetDisplay returns no error and the 21 bytes F0 12 27 line indent
\* followed by the text right-padded with 0x20 to 16 bytes.
C18_SetDisplayFrame ==
    (/\ sdRet.err # "none"
     /\ sdArgs.line \in {0, 1}
     /\ sdArgs.indent \in 0..15
     /\ Len(sdArgs.text) <= 16) =>
        /\ sdRet.err = "nil"
        /\ Len(sdRet.raw) = 21
        /\ SubSeq(sdRet.raw, 1, 5) = <<240, 18, 39, sdArgs.line, sdArgs.indent>>
        /\ \A k \in 1..16 :
              sdRet.raw[5 + k] = IF k <= Len(sdArgs.text) THEN sdArgs.text[k] ELSE 32

\* C18 witness: SetDisplay(Bottom, 7, "ABC") has returned.
C18_Witness ==
    /\ sdRet.err = "nil"
    /\ sdArgs = [line |-> 1, indent |-> 7, text |-> <<65, 66, 67>>]

\* C19: SetDisplay returns an error and no message whenever line is not Top
\* or Bottom, indent is outside 0..15, or the text is longer than 16 bytes.
C19_SetDisplayRejects ==
    (/\ sdRet.err # "none"
     /\ \/ sdArgs.line \notin {0, 1}
        \/ sdArgs.indent \notin 0..15
        \/ Len(sdArgs.text) > 16) =>
        /\ sdRet.err # "nil"
        /\ sdRet.raw = <<>>

\* The frame for the window of the scrolled text that starts at offset i.
Window(i) == <<240, 18, 39, scroll.line, 0>> \o SubSeq(scroll.text, i + 1, i + 16)

\* The loop over next() has ended: the latest call returned start && done.
ScrollEnded ==
    /\ scrollRet # <<>>
    /\ scrollRet[Len(scrollRet)].start
    /\ scrollRet[Len(scrollRet)].done

\* C20 (as claimed): for a text of n >= 16 bytes, the calls of next() up to
\* the one returning start && done emit the windows at 0, 1, ..., n-16 and
\* then the window at 0 again.
C20_ScrollWindowsThenStart ==
    (Len(scroll.text) >= 16 /\ ScrollEnded) =>
        /\ Len(scrollRet) = Len(scroll.text) - 14
        /\ \A k \in 1..(Len(scroll.text) - 15) : scrollRet[k].raw = Window(k - 1)
        /\ scrollRet[Len(scroll.text) - 14].raw = Window(0)

\* C20 (amended): for n >= 16 the calls emit the windows at 0, 1, ..., n-16
\* in order, none skipped; for n >= 17 the last call, returning start &&
\* done, emits the window at 0 again, while for n = 16 the first call
\* already returns start && done and the single window is emitted once.
C20_ScrollWindowsInOrder ==
    Len(scroll.text) >= 16 =>
        /\ \A k \in DOMAIN scrollRet :
              scrollRet[k].raw =
                  IF k <= Len(scroll.text) - 15 THEN Window(k - 1) ELSE Window(0)
        /\ \A k \in DOMAIN scrollRet :
              (scrollRet[k].start /\ scrollRet[k].done) <=>
                  k = (IF Len(scroll.text) = 16 THEN 1 ELSE Len(scroll.text) - 14)

\* C20 witness: the loop has ended for a text of 18 bytes, after 4 calls.
C20_Witness ==
    /\ Len(scroll.text) = 18
    /\ ScrollEnded
    /\ Len(scrollRet) = 4

\* C21: every call of next() returns done = (i >= len(text)-16) for the i
\* held when the call began, and start = (i == 0) for the i after the wrap
\* step.
C21_ScrollDoneAndStart ==
    [][scrollRet' # scrollRet =>
          LET n == Len(scroll.text)
              r == scrollRet'[Len(scrollRet')]
          IN  /\ r.done = (scroll.i >= n - 16)
              /\ r.start = ((IF scroll.i > n - 16 THEN 0 ELSE scroll.i) = 0)]_vars

\* The character codes in the top-line frame of call k.
TopCodes(k) == SubSeq(charsRet[k].line1, 6, 21)

\* How often the code c is emitted in the top-line frames of calls 1..16.
TimesEmitted(c) ==
    Cardinality({<<k, j>> \in (1..16) \X (1..16) : TopCodes(k)[j] = c})

\* C22 (as claimed): on a fresh producer the top-line frames of the first
\* 16 calls hold only codes in 1..255, each of them once; done is false on
\* calls 1..15 and true on call 16.
C22_CharCodesOneTo255 ==
    chars.backs = 0 =>
        /\ \A k \in DOMAIN charsRet :
              k <= 16 => /\ \A j \in 1..16 : TopCodes(k)[j] \in 1..255
                         /\ charsRet[k].done = (k = 16)
        /\ Len(charsRet) >= 16 => \A c \in 1..255 : TimesEmitted(c) = 1

\* C22 (amended): the top-line frame of call k (k = 1..16) holds the codes
\* 16(k-1)+1 .. 16k in order, reduced to 8 bits: the codes 1..255 appear
\* once each, and the last byte of the 16th frame is the code 0; done is
\* false on calls 1..15 and true on call 16.
C22_CharCodesWithZero ==
    chars.backs = 0 =>
        /\ \A k \in DOMAIN charsRet :
              k <= 16 => /\ \A j \in 1..16 :
                               TopCodes(k)[j] = (16 * (k - 1) + j) % 256
                         /\ SubSeq(charsRet[k].line1, 1, 5) = <<240, 18, 39, 0, 0>>
                         /\ charsRet[k].done = (k = 16)
        /\ Len(charsRet) >= 16 =>
              /\ \A c \in 1..255 : TimesEmitted(c) = 1
              /\ TimesEmitted(0) = 1
              /\ TopCodes(16)[16] = 0

\* C22 witness: 16 calls made on a fresh producer, the last one returned
\* done.
C22_Witness ==
    /\ chars.backs = 0
    /\ Len(charsRet) = 16
    /\ charsRet[16].done
    /\ chars.i = 0

\* C23: for a message that passes Check, the assembler fed with the
\* outbound frame reports end of frame on the last byte, and the assembled
\* bytes without the checksum are the message.
C23_RoundTrip ==
    rtRet.err # "none" =>
        /\ rtRet.err = "EOF"
        /\ rtRet.rest = <<>>
        /\ Len(rtRet.raw.buf) = Len(rtMsg) + 1
        /\ SubSeq(rtRet.raw.buf, 1, Len(rtMsg)) = rtMsg

\* The sends the handler has dequeued and not completed.
InFlight == {s \in Senders : s \in written /\ spc[s] = "wait" /\ errC[s] = ErrNone}

\* C24: the handler takes a send from the outbound queue only while no send is
\* in flight, and never in a loop iteration that started with an inbound frame
\* waiting.
C24_OneSendOutstanding ==
    [][/\ Len(writeC') < Len(writeC) => InFlight = {} /\ hpc = "sel2"
       /\ (hpc = "top" /\ hpc' # "top" /\ rawReadC # <<>>) => hpc' = "sel1"]_vars

C24_Witness ==
    /\ w = 2
    /\ InFlight = {2}
    /\ 1 \in written
    /\ spc[1] = "returned"

\* A step of the handler goroutine: each of them moves its position, and out'
\* is what the step writes to the serial device.
HandlerStep == hpc' # hpc

\* C25: after the handler has consumed an error reply to the first attempt of
\* the in-flight send, and before that send is written again, no write to the
\* serial device is the flush-recovery burst: the next frame written is the
\* re-send.
C25_ErrorReplyRetriesWithoutFlush ==
    [][(HandlerStep /\ w # 0 /\ tries = 1 /\ failBy[w] # <<>>)
           => \A i \in 1..Len(out') : out'[i] # forceFlushData]_vars

\* F0 01 00 00 F1 F0 01 00 00 F1
FlushBurst == <<240, 1, 0, 0, 241, 240, 1, 0, 0, 241>>

\* The flush burst is written only by a handler that waits in its first select
\* with the reply timer of the in-flight send fired; it is one write, and the
\* same step re-sends the pending frame or completes the send with the
\* retry-limit error.
FlushOnlyOnTimeout ==
    (HandlerStep /\ \E i \in 1..Len(out') : out'[i] = FlushBurst) =>
        /\ hpc = "sel1"
        /\ replyTimeout = "fired"
        /\ InFlight = {w}
        /\ \/ /\ out' = <<FlushBurst, sdata[w]>>
              /\ w' = w
              /\ tries' = tries + 1
              /\ replyTimeout' = "armed"
           \/ /\ out' = <<FlushBurst>>
              /\ errC'[w].kind = "retry limit exceeded"
              /\ w' = 0

\* C26 as stated: every fired reply timer is ended by a write of the flush
\* burst, and the flush burst is written at no other time.
C26_FlushOnEveryTimerFire ==
    [][/\ FlushOnlyOnTimeout
       /\ (replyTimeout = "fired" /\ replyTimeout' # "fired")
              => (out' # <<>> /\ Head(out') = FlushBurst)]_vars

\* C26, amended: a fired reply timer is ended either by the handler taking
\* the timeout case, which writes the flush burst, or by the handler taking a
\* matching OK reply first, which completes the send with no flush; the flush
\* burst is written at no other time.
C26_FlushOnTimeoutCase ==
    [][/\ FlushOnlyOnTimeout
       /\ (replyTimeout = "fired" /\ replyTimeout' # "fired")
              => \/ out' # <<>> /\ Head(out') = FlushBurst
                 \/ out' = <<>> /\ errC'[w] = ErrNil /\ okBy'[w] # okBy[w]]_vars

C26_Witness ==
    /\ out = <<FlushBurst>>
    /\ \E s \in Senders : errC[s].kind = "retry limit exceeded"

\* C27: the bytes written to the serial device change only in steps of the
\* handler goroutine; every write of such a step is the frame of the send in
\* flight, the flush burst or the ack reply to the frame being dispatched.
C27_OnlyHandlerWrites ==
    [][out' # out =>
          /\ HandlerStep
          /\ \A i \in 1..Len(out') :
                \/ out'[i] = FlushBurst
                \/ w' # 0 /\ out'[i] = sdata[w']
                \/ hpc = "dispatch" /\ <<out'[i]>> = AckWrites(read.b)]_vars

C27_Witness ==
    /\ hpc = "fwd"
    /\ out # <<>>
    /\ InFlight # {}
    /\ rcvpc = "blocked"
    /\ clpc # "idle"

\* C28: every attempt of a send (the first write and each retry) writes the
\* caller's message followed by its checksum, whatever happened since the
\* previous attempt.
C28_AttemptsWriteSameBytes ==
    [][(HandlerStep /\ tries' = tries + 1) =>
          /\ w' # 0
          /\ (w # 0 => w' = w)
          /\ smsg'[w'] = smsg[w']
          /\ out' # <<>>
          /\ out'[Len(out')] = Append(smsg[w'], SumBytes(smsg[w']) % 256)]_vars

C28_Witness ==
    /\ w # 0
    /\ tries = 3
    /\ failBy[w] # <<>>
    /\ out = <<FlushBurst, Append(smsg[w], SumBytes(smsg[w]) % 256)>>

\* The last n elements of s (all of s if it has fewer).
LastN(s, n) == SubSeq(s, IF Len(s) > n THEN Len(s) - n + 1 ELSE 1, Len(s))

\* After any number of forwards with no Recv, the queue holds the last
\* min(n, 5) forwarded messages in arrival order (but for the moment between
\* the discard and the append).
NoRecvKeepsNewest ==
    (recvd = <<>> /\ hpc # "put") => readC = LastN(forwarded, ReadCCap)

AnswersInFlight(r) == \E s \in InFlight : Function(sdata[s]) = Function(r)

\* C30: when the handler takes a Reply frame from rawReadC, it consumes it if
\* a send to the same function is in flight, whatever the payload, and moves
\* it on to the forwarding step otherwise; a consumed frame is never on the
\* receive queue's record, and every other Reply is, once the handler is done
\* with it, on that record exactly once as its bytes without the checksum.
C30_MatchingReplyConsumed ==
    /\ [][(Len(rawReadC') < Len(rawReadC) /\ Type(Head(rawReadC).b) = Reply) =>
             IF AnswersInFlight(Head(rawReadC).b)
             THEN hpc' = "top" /\ read' = read /\ forwarded' = forwarded
             ELSE hpc' = "dispatch" /\ read' = Head(rawReadC)]_vars
    /\ [](\A t \in 1..Len(framed) :
             Type(framed[t]) = Reply =>
                 /\ Cardinality({i \in DOMAIN forwarded : forwarded[i].tag = t})
                       = IF InPipeline(t) \/ t \in consumed THEN 0 ELSE 1
                 /\ \A i \in DOMAIN forwarded :
                       forwarded[i].tag = t => forwarded[i].b = Stripped(t))

\* C30 witness: an error reply to the send in flight was consumed, and a
\* flush reply was forwarded while that send was in flight.
C30_Witness ==
    /\ InFlight # {}
    /\ hpc = "top"
    /\ \E t \in consumed : framed[t] = ReplyOnErr
    /\ \E i \in DOMAIN forwarded : forwarded[i].b = <<241, 1, 0, 0>>

\* The frames of one write to the serial device: each is its LEN byte + 4
\* bytes long (kind, LEN, function, LEN payload bytes, checksum).
RECURSIVE FramesOf(_)
FramesOf(bs) ==
    IF Len(bs) < 2 \/ Len(bs) <= bs[2] + 4 THEN <<bs>>
    ELSE <<SubSeq(bs, 1, bs[2] + 4)>> \o FramesOf(SubSeq(bs, bs[2] + 5, Len(bs)))

\* The last byte of f is the sum modulo 256 of the bytes before it.
EndsWithChecksum(f) ==
    /\ Len(f) >= 2
    /\ f[Len(f)] = SumBytes(SubSeq(f, 1, Len(f) - 1)) % 256

\* C31: every frame of every write to the serial device ends with the sum
\* modulo 256 of its preceding bytes.
C31_WrittenFramesHaveChecksum ==
    \A i \in DOMAIN out :
        \A k \in DOMAIN FramesOf(out[i]) : EndsWithChecksum(FramesOf(out[i])[k])

C31_Witness ==
    /\ ack
    /\ Len(out) = 2
    /\ Len(FramesOf(out[1])) = 2
    /\ out[2] = <<240, 1, 17, 1, 3>>

\* C32: the assembler ends a frame, with end of frame or a checksum error, on
\* the byte that makes the bytes consumed for the frame its LEN byte + 3, and
\* never holds more than LEN + 3 bytes of one frame.
C32_FrameIsLenPlus3 ==
    /\ rtRet.err \in {"EOF", "invalid checksum"} =>
           Len(rtRet.raw.buf) = rtRet.raw.buf[2] + 3
    /\ (rtRet.err = "nil" /\ Len(rtRet.raw.buf) >= 2) =>
           Len(rtRet.raw.buf) <= rtRet.raw.buf[2] + 3

\* The frame-too-long errors of the assembler.
TooLong == {"reply message too long", "command message too long"}

\* C33: the assembler fails with a frame-too-long error exactly on a second
\* byte that is above 16, or above 1 after a Reply kind byte; a frame it
\* completes has a LEN byte of at most 16, and at most 1 for a Reply.
C33_TooLongIffAboveLimit ==
    /\ rtRet.err \in TooLong => Len(rtRet.raw.buf) = 2
    /\ (Len(rtRet.raw.buf) = 2 /\ rtRet.err # "none") =>
           (rtRet.err \in TooLong <=>
               \/ rtRet.raw.buf[2] > 16
               \/ rtRet.raw.buf[1] = 241 /\ rtRet.raw.buf[2] > 1)
    /\ rtRet.err = "EOF" =>
           /\ rtRet.raw.buf[2] <= 16
           /\ rtRet.raw.buf[1] = 241 => rtRet.raw.buf[2] <= 1

C33_Witness ==
    /\ rtRet.err = "reply message too long"
    /\ rtRet.raw.buf = <<241, 2>>

\* C34: every frame the reader has framed, holds for the handler or has put on
\* rawReadC, and every frame the handler has taken, ends with the sum modulo
\* 256 of its preceding bytes; so does every frame behind a consumed reply or
\* a message on the receive queue.
C34_OnlyGoodChecksumsPass ==
    /\ \A t \in DOMAIN framed : EndsWithChecksum(framed[t])
    /\ rframe # NoMessage => EndsWithChecksum(rframe.b)
    /\ \A i \in DOMAIN rawReadC : EndsWithChecksum(rawReadC[i].b)
    /\ hpc = "dispatch" => EndsWithChecksum(read.b)
    /\ \A t \in consumed : t \in DOMAIN framed
    /\ \A i \in DOMAIN readC :
          /\ readC[i].tag \in DOMAIN framed
          /\ readC[i].b = Stripped(readC[i].tag)

\* C34 witness: the MCU has twice sent a frame with a wrong checksum followed
\* by a button frame; only the button frames were framed, and the send is
\* still waiting.
C34_Witness ==
    /\ nframes = 2
    /\ wire = <<>>
    /\ raw = ResetRaw
    /\ framed = PressFrames(ReadCCap) \o <<ButtonUp, ButtonUp>>
    /\ InFlight # {}
    /\ hpc = "top"
    /\ read = NoMessage
    /\ rawReadC = <<>>

\* C35: fed by the reader loop, WriteByte never returns the invalid-size
\* error: while a frame is being assembled the buffer is no longer than the
\* expected length, and the byte written at that index ends the frame.
C35_InvalidSizeUnreachable ==
    /\ rtRet.err # "invalid size"
    /\ (rtRet.err = "nil" /\ Len(rtRet.raw.buf) >= 2) =>
           Len(rtRet.raw.buf) <= rtRet.raw.len
    /\ rtRet.err \in {"EOF", "invalid checksum"} =>
           Len(rtRet.raw.buf) = rtRet.raw.len + 1

C35_Witness ==
    /\ rtRet.err = "EOF"
    /\ rtRet.raw.len = 19
    /\ Len(rtRet.raw.buf) = 20
    /\ rtRet.rest = CmdOn

\* C36: every chunk of SpecNoise has one valid frame, which follows the bytes
\* of a parse error.  Whenever the reader has read all bytes on the line,
\* each chunk has yielded its valid frame, framed by an assembler that is
\* reset after every error; and the reader terminates only in a step that
\* consumes no byte (a failed read).
C36_ReaderResyncs ==
    /\ [][(rpc # "dead" /\ rpc' = "dead") => (wire' = wire /\ raw' = raw)]_vars
    /\ [](/\ Len(framed) = ReadCCap + nframes - (IF wire = <<>> THEN 0 ELSE 1)
          /\ \A t \in DOMAIN framed : framed[t] \in {ButtonUp, ReplyOnOk}
          /\ (rpc = "read" /\ wire = <<>>) => raw = ResetRaw)

\* C36 witness: two chunks that began with a parse error were read; the
\* button frames that followed the errors were framed and forwarded.
C36_Witness ==
    /\ nframes = 2
    /\ wire = <<>>
    /\ Len(framed) = ReadCCap + 2
    /\ framed[ReadCCap + 1] = ButtonUp
    /\ framed[ReadCCap + 2] = ButtonUp
    /\ Len(forwarded) = ReadCCap + 2
    /\ rpc = "read"

\* C37: every message a Recv call has returned passes Message.Check.
C37_RecvWellFormed ==
    \A i \in DOMAIN recvd : Check(recvd[i].b) = "nil"

\* C38: the reply that completes a send with success was framed after the
\* first write of the send's frame.
C38_NoStaleReplyCompletes ==
    [][\A s \in Senders :
          (errC[s] = ErrNone /\ errC'[s] = ErrNil) =>
              /\ rawReadC # <<>>
              /\ Head(rawReadC).tag > framedAt[s]]_vars

\* C39: the handler completes a send only while it is in flight, so once per
\* send and with one outcome; every try it writes belongs to a send in
\* flight, and the reply matcher, the retry closure and the timer are set only
\* for a send in flight.
C39_CompletedAtMostOnce ==
    /\ [][/\ \A s \in Senders :
                (HandlerStep /\ errC'[s] # errC[s]) =>
                    /\ s = w
                    /\ s \in InFlight
                    /\ errC'[s] = ErrNil \/ errC'[s].kind = "retry limit exceeded"
                    /\ w' = 0
          /\ (HandlerStep /\ tries' = tries + 1) => w' \in InFlight']_vars
    /\ []((handleReply \/ retry \/ replyTimeout # "nil" \/ w # 0) => InFlight = {w})

C39_Witness ==
    /\ \E s \in Senders : sres[s] = ErrNil
    /\ \E s \in Senders : sres[s].kind = "retry limit exceeded"
    /\ w = 0
    /\ hpc = "top"

\* C40: at the top of the handler loop the reply matcher, the retry closure
\* and the reply timer are all set or all unset, and the handler takes the
\* timeout case only with the retry closure set.
C40_PendingStateConsistent ==
    /\ [][(HandlerStep /\ hpc = "sel1" /\ replyTimeout = "fired"
              /\ replyTimeout' # "fired") => retry]_vars
    /\ [](hpc = "top" =>
             \/ handleReply /\ retry /\ replyTimeout # "nil"
             \/ ~handleReply /\ ~retry /\ replyTimeout = "nil")

C40_Witness ==
    /\ hpc = "top"
    /\ handleReply
    /\ retry
    /\ replyTimeout = "armed"
    /\ tries = 2
    /\ out = <<FlushBurst, sdata[w]>>

====
